---- MODULE Spec2Model ----
(***************************************************************************)
(* Model of the blob credit and subscription state machine of             *)
(* fendermint/actors/blobs/src/state.rs: the State struct, its            *)
(* transitions buy_credit, add_blob, finalize_blob, delete_blob and       *)
(* debit_accounts, and the expiry index helper update_expiry_index.       *)
(*                                                                         *)
(* Every transition is a pure operator from a state record (and the       *)
(* call's arguments) to a result record [st, ok, ret]: st is the State    *)
(* after the call, ok is FALSE when the call returned Err, ret is the     *)
(* returned value.  The actions apply these operators to the variables.   *)
(***************************************************************************)
EXTENDS Integers, Sequences, FiniteSets, TLC

(***************************************************************************)
(* Program constants and the bounds of the model.                         *)
(***************************************************************************)
\* const MIN_TTL: ChainEpoch = 3600
MIN_TTL == 3600

\* Constructor arguments State::new(capacity, credit_debit_rate).
Capacity == 3
CreditDebitRate == 1200

\* TLC integers are 32 bit wide, so the modulus of the `as u64` casts is
\* scaled down to 2^U64Bits.  Every non-negative operand of a cast in the
\* model (a ttl or an epoch difference) stays below it, so only negative
\* operands wrap, as in the program.
U64Bits == 16
U64Modulus == 2 ^ U64Bits

\* Number of calls of State methods in a behaviour.
MaxCalls == 5

\* The added and expiry epochs of the subscriptions of a SubscriptionGroup
\* are 1..MaxGroupEpoch.
MaxGroupEpoch == 2

Address == {"A", "B"}
Hash == {"H1", "H2"}
PublicKey == {"P0"}
Sizes == {1, 2}
TTLs == {MIN_TTL - 1, MIN_TTL, MIN_TTL + 1}
AttoAmounts == {6}
Epochs == {0, 1, MIN_TTL + 1}

None == "none"

\* enum SubscriptionId { Default, Key(Vec<u8>) }
SubscriptionId == {"Default", "K1", "K2"}

VARIABLES
    capacity_free,     \* State.capacity_free
    capacity_used,     \* State.capacity_used
    credit_sold,       \* State.credit_sold
    credit_committed,  \* State.credit_committed
    credit_debited,    \* State.credit_debited
    credit_debit_rate, \* State.credit_debit_rate
    accounts,          \* State.accounts: Address -> Account
    blobs,             \* State.blobs: Hash -> Blob
    expiries,          \* State.expiries: ChainEpoch -> (Address -> Hash)
    pending,           \* State.pending: Hash -> set of <<Address, PublicKey>>
    now,               \* the host's current epoch (block height)
    last,              \* history: the last step and whether it returned Ok
    minted,            \* history: sum of the credits minted by buy_credit
    calls,             \* history: number of calls of State methods
    branch,            \* history: the return taken by the last finalize_blob
    added_at,          \* history: Hash -> (Address -> epoch the subscription was created at)
    held,              \* history: Address -> the account's first subscription, while it is its only one
    approvals,         \* Account.approvals: <<from, receiver, caller>> -> CreditApproval
    subscriptions,     \* SubscriptionGroup.subscriptions: SubscriptionId -> Subscription
    answer             \* the last call on the SubscriptionGroup and what it returned

stateVars == <<capacity_free, capacity_used, credit_sold, credit_committed,
               credit_debited, credit_debit_rate, accounts, blobs, expiries,
               pending>>
vars == <<capacity_free, capacity_used, credit_sold, credit_committed,
          credit_debited, credit_debit_rate, accounts, blobs, expiries,
          pending, now, last, minted, calls, branch, added_at, held,
          approvals, subscriptions, answer>>
histVars == <<minted, calls, branch, added_at, held>>
groupVars == <<subscriptions, answer>>

(***************************************************************************)
(* Values.                                                                 *)
(***************************************************************************)
\* enum BlobStatus { Added(ChainEpoch), Resolved, Failed } as state.rs uses it
Added(epoch) == [tag |-> "Added", epoch |-> epoch]
Resolved == [tag |-> "Resolved"]
Failed == [tag |-> "Failed"]

\* The State struct as one record.
St ==
    [capacity_free |-> capacity_free,
     capacity_used |-> capacity_used,
     credit_sold |-> credit_sold,
     credit_committed |-> credit_committed,
     credit_debited |-> credit_debited,
     credit_debit_rate |-> credit_debit_rate,
     accounts |-> accounts,
     blobs |-> blobs,
     expiries |-> expiries,
     pending |-> pending]

\* State::new
New(capacity, rate) ==
    [capacity_free |-> capacity,
     capacity_used |-> 0,
     credit_sold |-> 0,
     credit_committed |-> 0,
     credit_debited |-> 0,
     credit_debit_rate |-> rate,
     accounts |-> <<>>,
     blobs |-> <<>>,
     expiries |-> <<>>,
     pending |-> <<>>]

\* Ok(ret) and Err(..) of a call that leaves the State as st.
Ok(st, ret) == [st |-> st, ok |-> TRUE, ret |-> ret]
Err(st) == [st |-> st, ok |-> FALSE, ret |-> None]

\* HashMap / BTreeMap helpers: insert (or overwrite) and remove a key.
MapInsert(m, k, v) == [x \in DOMAIN m \cup {k} |-> IF x = k THEN v ELSE m[x]]
MapRemove(m, k) == [x \in DOMAIN m \ {k} |-> m[x]]

\* `x as u64` of an i64.
AsU64(x) == x % U64Modulus

(***************************************************************************)
(* ensure_credit                                                           *)
(***************************************************************************)
\* Variant that accepts any requirement.
ensure_credit_unchecked(credit_free, required_credit) == TRUE

ensure_credit(credit_free, required_credit) == ~(credit_free < required_credit)

(***************************************************************************)
(* update_expiry_index: the add is applied first, then the remove.        *)
(* An Option<ChainEpoch> is Some(e) or None.                               *)
(***************************************************************************)
Some(e) == <<e>>
NoEpoch == <<>>

\* Variant that never removes the old entry.
update_expiry_index_keep(exp, subscriber, hash, add, remove) ==
    IF add # NoEpoch
    THEN IF add[1] \in DOMAIN exp
         THEN [exp EXCEPT ![add[1]] = MapInsert(@, subscriber, hash)]
         ELSE MapInsert(exp, add[1], MapInsert(<<>>, subscriber, hash))
    ELSE exp

update_expiry_index(exp, subscriber, hash, add, remove) ==
    LET e1 == IF add # NoEpoch
              THEN IF add[1] \in DOMAIN exp
                   THEN [exp EXCEPT ![add[1]] = MapInsert(@, subscriber, hash)]
                   ELSE MapInsert(exp, add[1], MapInsert(<<>>, subscriber, hash))
              ELSE exp
    IN  IF remove # NoEpoch /\ remove[1] \in DOMAIN e1
        THEN LET subs == MapRemove(e1[remove[1]], subscriber)
             IN  IF DOMAIN subs = {}
                 THEN MapRemove(e1, remove[1])
                 ELSE [e1 EXCEPT ![remove[1]] = subs]
        ELSE e1

(***************************************************************************)
(* The debit "for existing usage" that add_blob, delete_blob and          *)
(* debit_accounts each apply to one account, up to debit_epoch.           *)
(***************************************************************************)
\* Variant that debits the global counters but not the account.
DebitAccount_global_only(s, address, debit_epoch) ==
    LET account == s.accounts[address]
        debit_blocks == debit_epoch - account.last_debit_epoch
        debit == AsU64(debit_blocks) * account.capacity_used
    IN  [s EXCEPT !.credit_debited = @ + debit,
                  !.credit_committed = @ - debit,
                  !.accounts[address].last_debit_epoch = debit_epoch]

DebitAccount(s, address, debit_epoch) ==
    LET account == s.accounts[address]
        debit_blocks == debit_epoch - account.last_debit_epoch
        debit == AsU64(debit_blocks) * account.capacity_used
    IN  [s EXCEPT !.credit_debited = @ + debit,
                  !.credit_committed = @ - debit,
                  !.accounts[address].credit_committed = @ - debit,
                  !.accounts[address].last_debit_epoch = debit_epoch]

(***************************************************************************)
(* State::buy_credit                                                       *)
(***************************************************************************)
\* Variant that records the sale before the capacity check.
buy_credit_early_sale(s, address, amount, current_epoch) ==
    LET credits == s.credit_debit_rate * amount
        s1 == [s EXCEPT !.credit_sold = @ + credits]
    IN  IF s.capacity_used = s.capacity_free
        THEN Err(s1)
        ELSE IF address \in DOMAIN s1.accounts
             THEN LET s2 == [s1 EXCEPT !.accounts[address].credit_free = @ + credits]
                  IN  Ok(s2, s2.accounts[address])
             ELSE LET account == [capacity_used |-> 0,
                                  credit_free |-> credits,
                                  credit_committed |-> 0,
                                  last_debit_epoch |-> current_epoch]
                  IN  Ok([s1 EXCEPT !.accounts = MapInsert(@, address, account)],
                         account)

\* Variant that credits an existing account without recording the sale.
buy_credit_unrecorded(s, address, amount, current_epoch) ==
    LET credits == s.credit_debit_rate * amount
    IN  IF s.capacity_used = s.capacity_free
        THEN Err(s)
        ELSE IF address \in DOMAIN s.accounts
             THEN LET s2 == [s EXCEPT !.accounts[address].credit_free = @ + credits]
                  IN  Ok(s2, s2.accounts[address])
             ELSE LET account == [capacity_used |-> 0,
                                  credit_free |-> credits,
                                  credit_committed |-> 0,
                                  last_debit_epoch |-> current_epoch]
                  IN  Ok([s EXCEPT !.credit_sold = @ + credits,
                                   !.accounts = MapInsert(@, address, account)],
                         account)

\* Variant that refuses only above capacity.
buy_credit_over_capacity(s, address, amount, current_epoch) ==
    LET credits == s.credit_debit_rate * amount
    IN  IF s.capacity_used > s.capacity_free
        THEN Err(s)
        ELSE LET s1 == [s EXCEPT !.credit_sold = @ + credits]
             IN  IF address \in DOMAIN s1.accounts
                 THEN LET s2 == [s1 EXCEPT !.accounts[address].credit_free = @ + credits]
                      IN  Ok(s2, s2.accounts[address])
                 ELSE LET account == [capacity_used |-> 0,
                                      credit_free |-> credits,
                                      credit_committed |-> 0,
                                      last_debit_epoch |-> current_epoch]
                      IN  Ok([s1 EXCEPT !.accounts = MapInsert(@, address, account)],
                             account)

buy_credit(s, address, amount, current_epoch) ==
    LET credits == s.credit_debit_rate * amount
    IN  IF s.capacity_used = s.capacity_free
        THEN Err(s)
        ELSE LET s1 == [s EXCEPT !.credit_sold = @ + credits]
             IN  IF address \in DOMAIN s1.accounts
                 THEN LET s2 == [s1 EXCEPT !.accounts[address].credit_free = @ + credits]
                      IN  Ok(s2, s2.accounts[address])
                 ELSE LET account == [capacity_used |-> 0,
                                      credit_free |-> credits,
                                      credit_committed |-> 0,
                                      last_debit_epoch |-> current_epoch]
                      IN  Ok([s1 EXCEPT !.accounts = MapInsert(@, address, account)],
                             account)

(***************************************************************************)
(* State::add_blob                                                         *)
(***************************************************************************)
\* The sender already subscribes to the blob: change expiry and source.
AddBlobExistingSub(s, sender, hash, size, expiry, source) ==
    LET sub == s.blobs[hash].subs[sender]
        \* Required credit can be negative if sender is reducing expiry
        credit_required == AsU64(expiry - sub.expiry) * size
    IN  IF ~ensure_credit(s.accounts[sender].credit_free, credit_required)
        THEN [ok |-> FALSE]
        ELSE [ok |-> TRUE,
              credit_required |-> credit_required,
              new_capacity |-> 0,
              new_account_capacity |-> 0,
              st |-> [s EXCEPT
                        !.expiries = IF expiry # sub.expiry
                                     THEN update_expiry_index(@, sender, hash,
                                         Some(expiry), Some(sub.expiry))
                                     ELSE @,
                        !.blobs[hash].subs[sender] =
                            [expiry |-> expiry, source |-> source]]]

\* Variant that counts the blob again in the network capacity.
AddBlobNewSub_counted(s, sender, hash, size, ttl, expiry, source) ==
    LET credit_required == AsU64(ttl) * size
    IN  IF ~ensure_credit(s.accounts[sender].credit_free, credit_required)
        THEN [ok |-> FALSE]
        ELSE [ok |-> TRUE,
              credit_required |-> credit_required,
              new_capacity |-> size,
              new_account_capacity |-> size,
              st |-> [s EXCEPT
                        !.blobs[hash].subs =
                            MapInsert(@, sender, [expiry |-> expiry, source |-> source]),
                        !.expiries =
                            update_expiry_index(@, sender, hash, Some(expiry), NoEpoch)]]

\* The blob exists and the sender is a new subscriber.
AddBlobNewSub(s, sender, hash, size, ttl, expiry, source) ==
    LET credit_required == AsU64(ttl) * size
    IN  IF ~ensure_credit(s.accounts[sender].credit_free, credit_required)
        THEN [ok |-> FALSE]
        ELSE [ok |-> TRUE,
              credit_required |-> credit_required,
              new_capacity |-> 0,
              new_account_capacity |-> size,
              st |-> [s EXCEPT
                        !.blobs[hash].subs =
                            MapInsert(@, sender, [expiry |-> expiry, source |-> source]),
                        !.expiries =
                            update_expiry_index(@, sender, hash, Some(expiry), NoEpoch)]]

\* Variant that resets the status without queueing the source.
AddBlobMarkAdded_no_queue(s, sender, current_epoch, hash, source) ==
    IF s.blobs[hash].status # Failed
    THEN [s EXCEPT !.blobs[hash].status = Added(current_epoch)]
    ELSE s

\* Variant that resets a Failed blob as well.
AddBlobMarkAdded_failed_too(s, sender, current_epoch, hash, source) ==
    [s EXCEPT
        !.blobs[hash].status = Added(current_epoch),
        !.pending = IF hash \in DOMAIN s.pending
                    THEN MapInsert(s.pending, hash,
                                   s.pending[hash] \cup {<<sender, source>>})
                    ELSE MapInsert(s.pending, hash, {<<sender, source>>})]

\* The blob exists and is not Failed: reset it to Added and queue the source.
AddBlobMarkAdded(s, sender, current_epoch, hash, source) ==
    IF s.blobs[hash].status # Failed
    THEN [s EXCEPT
            !.blobs[hash].status = Added(current_epoch),
            !.pending = IF hash \in DOMAIN s.pending
                        THEN MapInsert(s.pending, hash,
                                       s.pending[hash] \cup {<<sender, source>>})
                        ELSE MapInsert(s.pending, hash, {<<sender, source>>})]
    ELSE s

\* Variant that does not count the new blob in the network capacity.
AddBlobNewBlob_uncounted(s, sender, current_epoch, hash, size, ttl, expiry, source) ==
    LET credit_required == AsU64(ttl) * size
    IN  IF ~ensure_credit(s.accounts[sender].credit_free, credit_required)
        THEN [ok |-> FALSE]
        ELSE LET blob == [size |-> size,
                          subs |-> MapInsert(<<>>, sender,
                                             [expiry |-> expiry, source |-> source]),
                          status |-> Added(current_epoch)]
             IN  [ok |-> TRUE,
                  credit_required |-> credit_required,
                  new_capacity |-> 0,
                  new_account_capacity |-> size,
                  st |-> [s EXCEPT
                            !.blobs = MapInsert(@, hash, blob),
                            !.expiries =
                                update_expiry_index(@, sender, hash, Some(expiry), NoEpoch),
                            !.pending = MapInsert(@, hash, {<<sender, source>>})]]

\* The blob does not exist yet.
AddBlobNewBlob(s, sender, current_epoch, hash, size, ttl, expiry, source) ==
    LET credit_required == AsU64(ttl) * size
    IN  IF ~ensure_credit(s.accounts[sender].credit_free, credit_required)
        THEN [ok |-> FALSE]
        ELSE LET blob == [size |-> size,
                          subs |-> MapInsert(<<>>, sender,
                                             [expiry |-> expiry, source |-> source]),
                          status |-> Added(current_epoch)]
             IN  [ok |-> TRUE,
                  credit_required |-> credit_required,
                  new_capacity |-> size,
                  new_account_capacity |-> size,
                  st |-> [s EXCEPT
                            !.blobs = MapInsert(@, hash, blob),
                            !.expiries =
                                update_expiry_index(@, sender, hash, Some(expiry), NoEpoch),
                            !.pending = MapInsert(@, hash, {<<sender, source>>})]]

\* Debit for existing usage, then account for the new size and move free
\* credit to committed credit.
AddBlobAccounting(s, sender, current_epoch, new_capacity, new_account_capacity, credit_required) ==
    LET s1 == DebitAccount(s, sender, current_epoch)
    IN  [s1 EXCEPT
           !.capacity_used = @ + new_capacity,
           !.accounts[sender].capacity_used = @ + new_account_capacity,
           !.credit_committed = @ + credit_required,
           !.accounts[sender].credit_committed = @ + credit_required,
           !.accounts[sender].credit_free = @ - credit_required]

\* Variant that also refuses the minimum ttl.
add_blob_ttl_exclusive(s, sender, current_epoch, hash, size, ttl, source) ==
    IF ttl <= MIN_TTL
    THEN Err(s)
    ELSE
    LET expiry == current_epoch + ttl
    IN  IF sender \notin DOMAIN s.accounts
        THEN Err(s)
        ELSE
        LET r == IF hash \in DOMAIN s.blobs
                 THEN LET r1 == IF sender \in DOMAIN s.blobs[hash].subs
                                THEN AddBlobExistingSub(s, sender, hash, size,
                                                        expiry, source)
                                ELSE AddBlobNewSub(s, sender, hash, size, ttl,
                                                   expiry, source)
                      IN  IF r1.ok
                          THEN [r1 EXCEPT !.st = AddBlobMarkAdded(@, sender,
                                                   current_epoch, hash, source)]
                          ELSE r1
                 ELSE AddBlobNewBlob(s, sender, current_epoch, hash, size, ttl,
                                     expiry, source)
        IN  IF ~r.ok
            THEN Err(s)
            ELSE LET s2 == AddBlobAccounting(r.st, sender, current_epoch,
                                             r.new_capacity,
                                             r.new_account_capacity,
                                             r.credit_required)
                 IN  Ok(s2, s2.accounts[sender])

add_blob(s, sender, current_epoch, hash, size, ttl, source) ==
    IF ttl < MIN_TTL
    THEN Err(s)
    ELSE
    LET expiry == current_epoch + ttl
    IN  IF sender \notin DOMAIN s.accounts
        THEN Err(s)
        ELSE
        LET r == IF hash \in DOMAIN s.blobs
                 THEN LET r1 == IF sender \in DOMAIN s.blobs[hash].subs
                                THEN AddBlobExistingSub(s, sender, hash, size,
                                                        expiry, source)
                                ELSE AddBlobNewSub(s, sender, hash, size, ttl,
                                                   expiry, source)
                      IN  IF r1.ok
                          THEN [r1 EXCEPT !.st = AddBlobMarkAdded(@, sender,
                                                   current_epoch, hash, source)]
                          ELSE r1
                 ELSE AddBlobNewBlob(s, sender, current_epoch, hash, size, ttl,
                                     expiry, source)
        IN  IF ~r.ok
            THEN Err(s)
            ELSE LET s2 == AddBlobAccounting(r.st, sender, current_epoch,
                                             r.new_capacity,
                                             r.new_account_capacity,
                                             r.credit_required)
                 IN  Ok(s2, s2.accounts[sender])

(***************************************************************************)
(* State::finalize_blob                                                    *)
(***************************************************************************)
\* The Failed branch: refund spent credit, reclaim size and committed credit.
\* Variant that re-mints the spent credit without taking it from credit_debited.
FinalizeFailed_remint_only(s, from, hash) ==
    LET size == s.blobs[hash].size
        sub == s.blobs[hash].subs[from]
        added_epoch == s.blobs[hash].status.epoch
        account == s.accounts[from]
        refund == IF account.last_debit_epoch > added_epoch
                  THEN AsU64(account.last_debit_epoch - added_epoch) * size
                  ELSE 0
        credit_reclaimed == IF sub.expiry > account.last_debit_epoch
                            THEN (sub.expiry - account.last_debit_epoch) * size
                            ELSE 0
    IN  [s EXCEPT
           !.accounts[from].credit_free = @ + refund + credit_reclaimed,
           !.capacity_used = @ - size,
           !.accounts[from].capacity_used = @ - size,
           !.credit_committed = @ - credit_reclaimed,
           !.accounts[from].credit_committed = @ - credit_reclaimed]

FinalizeFailed(s, from, hash) ==
    LET size == s.blobs[hash].size
        sub == s.blobs[hash].subs[from]
        added_epoch == s.blobs[hash].status.epoch
        account == s.accounts[from]
        refund == IF account.last_debit_epoch > added_epoch
                  THEN AsU64(account.last_debit_epoch - added_epoch) * size
                  ELSE 0
        credit_reclaimed == IF sub.expiry > account.last_debit_epoch
                            THEN (sub.expiry - account.last_debit_epoch) * size
                            ELSE 0
    IN  [s EXCEPT
           !.accounts[from].credit_free = @ + refund + credit_reclaimed,
           !.credit_debited = @ - refund,
           !.capacity_used = @ - size,
           !.accounts[from].capacity_used = @ - size,
           !.credit_committed = @ - credit_reclaimed,
           !.accounts[from].credit_committed = @ - credit_reclaimed]

\* Variant without the check of the status argument.
finalize_blob_any_status(s, from, hash, status) ==
    IF from \notin DOMAIN s.accounts
    THEN Err(s)
    ELSE IF hash \notin DOMAIN s.blobs
    THEN Ok(s, None)       \* the blob may have been deleted before it was finalized
    ELSE IF s.blobs[hash].status.tag # "Added"
    THEN Ok(s, None)       \* blob is already finalized (resolved/failed)
    ELSE IF from \notin DOMAIN s.blobs[hash].subs
    THEN Err(s)
    ELSE LET s1 == IF status.tag = "Failed" THEN FinalizeFailed(s, from, hash) ELSE s
             s2 == [s1 EXCEPT !.blobs[hash].status = status,
                              !.pending = MapRemove(@, hash)]
         IN  Ok(s2, None)

\* Variant that fails when the blob is absent.
finalize_blob_absent_err(s, from, hash, status) ==
    IF status.tag = "Added"
    THEN Err(s)
    ELSE IF from \notin DOMAIN s.accounts
    THEN Err(s)
    ELSE IF hash \notin DOMAIN s.blobs
    THEN Err(s)
    ELSE IF s.blobs[hash].status.tag # "Added"
    THEN Ok(s, None)       \* blob is already finalized (resolved/failed)
    ELSE IF from \notin DOMAIN s.blobs[hash].subs
    THEN Err(s)
    ELSE LET s1 == IF status = Failed THEN FinalizeFailed(s, from, hash) ELSE s
             s2 == [s1 EXCEPT !.blobs[hash].status = status,
                              !.pending = MapRemove(@, hash)]
         IN  Ok(s2, None)

\* Variant that ignores a finalizing address that is not subscribed.
finalize_blob_unsubscribed_ok(s, from, hash, status) ==
    IF status.tag = "Added"
    THEN Err(s)
    ELSE IF from \notin DOMAIN s.accounts
    THEN Err(s)
    ELSE IF hash \notin DOMAIN s.blobs
    THEN Ok(s, None)       \* the blob may have been deleted before it was finalized
    ELSE IF s.blobs[hash].status.tag # "Added"
    THEN Ok(s, None)       \* blob is already finalized (resolved/failed)
    ELSE IF from \notin DOMAIN s.blobs[hash].subs
    THEN Ok(s, None)
    ELSE LET s1 == IF status = Failed THEN FinalizeFailed(s, from, hash) ELSE s
             s2 == [s1 EXCEPT !.blobs[hash].status = status,
                              !.pending = MapRemove(@, hash)]
         IN  Ok(s2, None)

\* Variant that does not store the Failed status.
finalize_blob_status_unset(s, from, hash, status) ==
    IF status.tag = "Added"
    THEN Err(s)
    ELSE IF from \notin DOMAIN s.accounts
    THEN Err(s)
    ELSE IF hash \notin DOMAIN s.blobs
    THEN Ok(s, None)       \* the blob may have been deleted before it was finalized
    ELSE IF s.blobs[hash].status.tag # "Added"
    THEN Ok(s, None)       \* blob is already finalized (resolved/failed)
    ELSE IF from \notin DOMAIN s.blobs[hash].subs
    THEN Err(s)
    ELSE LET s1 == IF status = Failed THEN FinalizeFailed(s, from, hash) ELSE s
             s2 == [s1 EXCEPT !.blobs[hash].status = IF status = Failed THEN @ ELSE status,
                              !.pending = MapRemove(@, hash)]
         IN  Ok(s2, None)

\* Variant that lets a later terminal status replace the first.
finalize_blob_overwrite(s, from, hash, status) ==
    IF status.tag = "Added"
    THEN Err(s)
    ELSE IF from \notin DOMAIN s.accounts
    THEN Err(s)
    ELSE IF hash \notin DOMAIN s.blobs
    THEN Ok(s, None)       \* the blob may have been deleted before it was finalized
    ELSE IF s.blobs[hash].status.tag # "Added"
    THEN Ok([s EXCEPT !.blobs[hash].status = status], None)
    ELSE IF from \notin DOMAIN s.blobs[hash].subs
    THEN Err(s)
    ELSE LET s1 == IF status = Failed THEN FinalizeFailed(s, from, hash) ELSE s
             s2 == [s1 EXCEPT !.blobs[hash].status = status,
                              !.pending = MapRemove(@, hash)]
         IN  Ok(s2, None)

\* Variant that reclaims capacity and credit for every status.
finalize_blob_always_reclaim(s, from, hash, status) ==
    IF status.tag = "Added"
    THEN Err(s)
    ELSE IF from \notin DOMAIN s.accounts
    THEN Err(s)
    ELSE IF hash \notin DOMAIN s.blobs
    THEN Ok(s, None)       \* the blob may have been deleted before it was finalized
    ELSE IF s.blobs[hash].status.tag # "Added"
    THEN Ok(s, None)       \* blob is already finalized (resolved/failed)
    ELSE IF from \notin DOMAIN s.blobs[hash].subs
    THEN Err(s)
    ELSE LET s1 == FinalizeFailed(s, from, hash)
             s2 == [s1 EXCEPT !.blobs[hash].status = status,
                              !.pending = MapRemove(@, hash)]
         IN  Ok(s2, None)

finalize_blob(s, from, hash, status) ==
    IF status.tag = "Added"
    THEN Err(s)
    ELSE IF from \notin DOMAIN s.accounts
    THEN Err(s)
    ELSE IF hash \notin DOMAIN s.blobs
    THEN Ok(s, None)       \* the blob may have been deleted before it was finalized
    ELSE IF s.blobs[hash].status.tag # "Added"
    THEN Ok(s, None)       \* blob is already finalized (resolved/failed)
    ELSE IF from \notin DOMAIN s.blobs[hash].subs
    THEN Err(s)
    ELSE LET s1 == IF status = Failed THEN FinalizeFailed(s, from, hash) ELSE s
             s2 == [s1 EXCEPT !.blobs[hash].status = status,
                              !.pending = MapRemove(@, hash)]
         IN  Ok(s2, None)

(***************************************************************************)
(* State::delete_blob                                                      *)
(***************************************************************************)
Min(a, b) == IF a < b THEN a ELSE b

\* Variant that leaves the refunded credit in the account's credit_committed.
DeleteReclaim_uncommitted(s, sender, current_epoch, hash, debit_epoch) ==
    LET blob == s.blobs[hash]
        sub == blob.subs[sender]
        size == blob.size
        credit_reclaimed == IF debit_epoch = current_epoch
                            THEN (sub.expiry - debit_epoch) * size
                            ELSE 0
    IN  IF blob.status # Failed
        THEN [s EXCEPT
                !.accounts[sender].capacity_used = @ - size,
                !.capacity_used = IF DOMAIN blob.subs = {} THEN @ - size ELSE @,
                !.credit_committed = @ - credit_reclaimed,
                !.accounts[sender].credit_free = @ + credit_reclaimed]
        ELSE s

\* Variant that refunds up to the expiry without looking at the debit epoch.
DeleteReclaim_unchecked_refund(s, sender, current_epoch, hash, debit_epoch) ==
    LET blob == s.blobs[hash]
        sub == blob.subs[sender]
        size == blob.size
        credit_reclaimed == (sub.expiry - current_epoch) * size
    IN  IF blob.status # Failed
        THEN [s EXCEPT
                !.accounts[sender].capacity_used = @ - size,
                !.capacity_used = IF DOMAIN blob.subs = {} THEN @ - size ELSE @,
                !.credit_committed = @ - credit_reclaimed,
                !.accounts[sender].credit_committed = @ - credit_reclaimed,
                !.accounts[sender].credit_free = @ + credit_reclaimed]
        ELSE s

\* Account for reclaimed size and move committed credit to free credit.
\* The subscription is still in blob.subs when this runs.
DeleteReclaim(s, sender, current_epoch, hash, debit_epoch) ==
    LET blob == s.blobs[hash]
        sub == blob.subs[sender]
        size == blob.size
        credit_reclaimed == IF debit_epoch = current_epoch
                            THEN (sub.expiry - debit_epoch) * size
                            ELSE 0
    IN  IF blob.status # Failed
        THEN [s EXCEPT
                !.accounts[sender].capacity_used = @ - size,
                !.capacity_used = IF DOMAIN blob.subs = {} THEN @ - size ELSE @,
                !.credit_committed = @ - credit_reclaimed,
                !.accounts[sender].credit_committed = @ - credit_reclaimed,
                !.accounts[sender].credit_free = @ + credit_reclaimed]
        ELSE s

\* Variant that leaves the subscription's entry in the expiry index.
DeleteRemove_stale_index(s, sender, hash) ==
    LET s1 == [s EXCEPT !.blobs[hash].subs = MapRemove(@, sender)]
        delete_blob_ == DOMAIN s1.blobs[hash].subs = {}
    IN  [deleted |-> delete_blob_,
         st |-> IF delete_blob_
                THEN [s1 EXCEPT !.blobs = MapRemove(@, hash),
                                !.pending = MapRemove(@, hash)]
                ELSE s1]

\* Variant that keeps a blob without subscribers in the registry.
DeleteRemove_keep_blob(s, sender, hash) ==
    LET sub == s.blobs[hash].subs[sender]
        s1 == [s EXCEPT
                 !.expiries = update_expiry_index(@, sender, hash, NoEpoch,
                                                  Some(sub.expiry)),
                 !.blobs[hash].subs = MapRemove(@, sender)]
        delete_blob_ == FALSE
    IN  [deleted |-> delete_blob_,
         st |-> IF delete_blob_
                THEN [s1 EXCEPT !.blobs = MapRemove(@, hash),
                                !.pending = MapRemove(@, hash)]
                ELSE s1]

\* Update the expiry index, delete the subscription, delete the blob and its
\* pending entry when no subscriber is left.
DeleteRemove(s, sender, hash) ==
    LET sub == s.blobs[hash].subs[sender]
        s1 == [s EXCEPT
                 !.expiries = update_expiry_index(@, sender, hash, NoEpoch,
                                                  Some(sub.expiry)),
                 !.blobs[hash].subs = MapRemove(@, sender)]
        delete_blob_ == DOMAIN s1.blobs[hash].subs = {}
    IN  [deleted |-> delete_blob_,
         st |-> IF delete_blob_
                THEN [s1 EXCEPT !.blobs = MapRemove(@, hash),
                                !.pending = MapRemove(@, hash)]
                ELSE s1]

delete_blob(s, sender, current_epoch, hash) ==
    IF sender \notin DOMAIN s.accounts
    THEN Err(s)
    ELSE IF hash \notin DOMAIN s.blobs
    THEN Err(s)
    ELSE IF sender \notin DOMAIN s.blobs[hash].subs
    THEN Err(s)
    ELSE LET sub == s.blobs[hash].subs[sender]
             debit_epoch == Min(sub.expiry, current_epoch)
             s1 == IF debit_epoch > s.accounts[sender].last_debit_epoch
                   THEN DebitAccount(s, sender, debit_epoch)
                   ELSE s
             s2 == DeleteReclaim(s1, sender, current_epoch, hash, debit_epoch)
             r == DeleteRemove(s2, sender, hash)
         IN  Ok(r.st, [account |-> s2.accounts[sender], deleted |-> r.deleted])

(***************************************************************************)
(* State::debit_accounts                                                   *)
(***************************************************************************)
\* The (expiry, subscriber, hash) entries of the range (Unbounded,
\* Included(current_epoch)) of the expiry index.
ExpiredEntries(exp, current_epoch) ==
    {<<e, a, exp[e][a]>> : <<e, a>> \in
        {x \in (DOMAIN exp) \X Address : x[1] <= current_epoch /\ x[2] \in DOMAIN exp[x[1]]}}

\* The orders in which the loop can visit the entries: the BTreeMap range is
\* ascending by expiry, each inner HashMap iterates in an arbitrary order.
EntryOrders(entries) ==
    {o \in [1..Cardinality(entries) -> entries] :
        /\ \A i, j \in DOMAIN o : i # j => o[i] # o[j]
        /\ \A i, j \in DOMAIN o : i < j => o[i][1] <= o[j][1]}

\* The orders in which accounts.iter_mut() can visit the accounts.
AccountOrders(accts) ==
    {o \in [1..Cardinality(DOMAIN accts) -> DOMAIN accts] :
        \A i, j \in DOMAIN o : i # j => o[i] # o[j]}

\* Delete expired subscriptions: the loop over the collected entries from
\* the i-th on.  An Err of delete_blob is returned at once by `?`, with
\* the deletions made so far left in the State.
RECURSIVE DeleteExpired(_, _, _, _, _)
DeleteExpired(s, current_epoch, order, i, delete_blobs) ==
    IF i > Len(order)
    THEN Ok(s, delete_blobs)
    ELSE LET subscriber == order[i][2]
             hash == order[i][3]
             r == delete_blob(s, subscriber, current_epoch, hash)
         IN  IF ~r.ok
             THEN Err(r.st)
             ELSE DeleteExpired(r.st, current_epoch, order, i + 1,
                                IF r.ret.deleted
                                THEN delete_blobs \cup {hash}
                                ELSE delete_blobs)

\* Debit for existing usage: the loop over the accounts from the i-th on.
RECURSIVE DebitAll(_, _, _, _)
DebitAll(s, current_epoch, order, i) ==
    IF i > Len(order)
    THEN s
    ELSE DebitAll(DebitAccount(s, order[i], current_epoch), current_epoch,
                  order, i + 1)

\* Variant that reaps the first collected entry only.
debit_accounts_first_entry(s, current_epoch, entry_order, account_order) ==
    LET first == IF Len(entry_order) > 0 THEN <<entry_order[1]>> ELSE <<>>
        r == DeleteExpired(s, current_epoch, first, 1, {})
    IN  IF ~r.ok
        THEN Err(r.st)
        ELSE Ok(DebitAll(r.st, current_epoch, account_order, 1), r.ret)

debit_accounts(s, current_epoch, entry_order, account_order) ==
    LET r == DeleteExpired(s, current_epoch, entry_order, 1, {})
    IN  IF ~r.ok
        THEN Err(r.st)
        ELSE Ok(DebitAll(r.st, current_epoch, account_order, 1), r.ret)

(***************************************************************************)
(* The state machine.                                                      *)
(***************************************************************************)
\* The record of the last step: the operation and whether it returned Ok.
Call(op, ok) == [op |-> op, ok |-> ok]

\* The program treats all addresses alike and all hashes alike, so of the
\* values that are not yet a key of the map only one is tried as a new key:
\* the others lead to the same states up to renaming.
FreshOrKnown(S, known) ==
    known \cup (IF S \subseteq known THEN {} ELSE {CHOOSE x \in S \ known : TRUE})

\* The history of the first subscription of an account: what it costs for
\* its whole term (size * ttl), when it expires and the credit the account
\* has bought (paid), as long as it is plain: the account has had no other
\* add_blob accepted, has deleted nothing, and the blob was not finalized
\* as Failed.
NoHold == [cost |-> 0, expiry |-> 0, paid |-> 0, plain |-> TRUE]
Disturbed == [cost |-> 0, expiry |-> 0, paid |-> 0, plain |-> FALSE]

\* The account holds a plain subscription.
Holds(h) == h.plain /\ h.cost > 0

\* The creation epochs of the subscriptions of the registry bl after a call
\* at epoch, by hash and subscriber: a subscription that was there keeps
\* its epoch, a new one gets the epoch of the call, a removed one is
\* forgotten.
TrackAdded(old, bl, epoch) ==
    [h \in DOMAIN bl |->
        [a \in DOMAIN bl[h].subs |->
            IF h \in DOMAIN old /\ a \in DOMAIN old[h] THEN old[h][a] ELSE epoch]]

\* The State after a call becomes the current State.
Apply(s) ==
    /\ capacity_free' = s.capacity_free
    /\ capacity_used' = s.capacity_used
    /\ credit_sold' = s.credit_sold
    /\ credit_committed' = s.credit_committed
    /\ credit_debited' = s.credit_debited
    /\ credit_debit_rate' = s.credit_debit_rate
    /\ accounts' = s.accounts
    /\ blobs' = s.blobs
    /\ expiries' = s.expiries
    /\ pending' = s.pending

\* No call has been made on a SubscriptionGroup.
NoAnswer == [op |-> "none"]

\* The State after State::new, before any call.
StateInit ==
    /\ LET s == New(Capacity, CreditDebitRate)
       IN  /\ capacity_free = s.capacity_free
           /\ capacity_used = s.capacity_used
           /\ credit_sold = s.credit_sold
           /\ credit_committed = s.credit_committed
           /\ credit_debited = s.credit_debited
           /\ credit_debit_rate = s.credit_debit_rate
           /\ accounts = s.accounts
           /\ blobs = s.blobs
           /\ expiries = s.expiries
           /\ pending = s.pending
    /\ now = 0
    /\ last = Call("new", TRUE)
    /\ minted = 0
    /\ calls = 0
    /\ branch = "none"
    /\ added_at = <<>>
    /\ held = [a \in Address |-> NoHold]

Init ==
    /\ StateInit
    /\ approvals = <<>>
    /\ subscriptions = <<>>
    /\ answer = NoAnswer

\* The return that finalize_blob(from, hash, status) takes in s.
FinalizeBranch(s, from, hash, status) ==
    IF status.tag = "Added" THEN "bad_status"
    ELSE IF from \notin DOMAIN s.accounts THEN "no_account"
    ELSE IF hash \notin DOMAIN s.blobs THEN "absent"
    ELSE IF s.blobs[hash].status.tag # "Added"
    THEN IF s.blobs[hash].status = status THEN "same" ELSE "conflict"
    ELSE IF from \notin DOMAIN s.blobs[hash].subs THEN "not_subscribed"
    ELSE IF status = Failed THEN "failed" ELSE "resolved"

\* The host advances the block height to a later epoch.
Tick ==
    /\ \E e \in Epochs : e > now /\ now' = e
    /\ last' = Call("tick", TRUE)
    /\ branch' = "none"
    /\ UNCHANGED <<stateVars, minted, calls, added_at, held, approvals, groupVars>>

BuyCredit ==
    /\ calls < MaxCalls
    /\ \E address \in FreshOrKnown(Address, DOMAIN accounts), amount \in AttoAmounts :
        LET r == buy_credit(St, address, amount, now)
        IN  /\ Apply(r.st)
            /\ last' = Call("buy_credit", r.ok)
            /\ minted' = IF r.ok THEN minted + credit_debit_rate * amount
                                 ELSE minted
            /\ held' = IF r.ok /\ Holds(held[address])
                       THEN [held EXCEPT ![address].paid = @ + credit_debit_rate * amount]
                       ELSE held
    /\ calls' = calls + 1
    /\ branch' = "none"
    /\ UNCHANGED <<now, added_at, approvals, groupVars>>

AddBlob ==
    /\ calls < MaxCalls
    /\ \E sender \in Address, hash \in FreshOrKnown(Hash, DOMAIN blobs),
          size \in Sizes, ttl \in TTLs, source \in PublicKey :
        LET r == add_blob(St, sender, now, hash, size, ttl, source)
        IN  /\ Apply(r.st)
            /\ last' = Call("add_blob", r.ok)
            /\ added_at' = IF r.ok THEN TrackAdded(added_at, r.st.blobs, now) ELSE added_at
            /\ held' = IF ~r.ok THEN held
                       ELSE IF held[sender] = NoHold
                       THEN [held EXCEPT ![sender] =
                                [cost |-> size * ttl, expiry |-> now + ttl,
                                 paid |-> r.st.accounts[sender].credit_free
                                          + r.st.accounts[sender].credit_committed,
                                 plain |-> TRUE]]
                       ELSE [held EXCEPT ![sender] = Disturbed]
    /\ calls' = calls + 1
    /\ branch' = "none"
    /\ UNCHANGED <<now, minted, approvals, groupVars>>

FinalizeBlob ==
    /\ calls < MaxCalls
    /\ \E from \in Address, hash \in Hash,
          status \in {Added(now), Resolved, Failed} :
        LET r == finalize_blob(St, from, hash, status)
        IN  /\ Apply(r.st)
            /\ last' = Call("finalize_blob", r.ok)
            /\ branch' = FinalizeBranch(St, from, hash, status)
            /\ held' = IF FinalizeBranch(St, from, hash, status) = "failed"
                       THEN [a \in Address |->
                                IF a \in DOMAIN blobs[hash].subs THEN Disturbed
                                ELSE held[a]]
                       ELSE held
    /\ calls' = calls + 1
    /\ UNCHANGED <<now, minted, added_at, approvals, groupVars>>

DeleteBlob ==
    /\ calls < MaxCalls
    /\ \E sender \in Address, hash \in Hash :
        LET r == delete_blob(St, sender, now, hash)
        IN  /\ Apply(r.st)
            /\ last' = Call("delete_blob", r.ok)
            /\ added_at' = IF r.ok THEN TrackAdded(added_at, r.st.blobs, now) ELSE added_at
            /\ held' = IF r.ok THEN [held EXCEPT ![sender] = Disturbed] ELSE held
    /\ calls' = calls + 1
    /\ branch' = "none"
    /\ UNCHANGED <<now, minted, approvals, groupVars>>

DebitAccounts ==
    /\ calls < MaxCalls
    /\ \E entry_order \in EntryOrders(ExpiredEntries(expiries, now)),
          account_order \in AccountOrders(accounts) :
        LET r == debit_accounts(St, now, entry_order, account_order)
        IN  /\ Apply(r.st)
            /\ last' = Call("debit_accounts", r.ok)
            /\ added_at' = IF r.ok THEN TrackAdded(added_at, r.st.blobs, now) ELSE added_at
    /\ calls' = calls + 1
    /\ branch' = "none"
    /\ UNCHANGED <<now, minted, held, approvals, groupVars>>

Next ==
    \/ Tick
    \/ BuyCredit
    \/ AddBlob
    \/ FinalizeBlob
    \/ DeleteBlob
    \/ DebitAccounts

Spec == Init /\ [][Next]_vars

(***************************************************************************)
(* SubscriptionGroup (shared/src/state.rs): max_expiries and is_min_added  *)
(* over the subscriptions of one subscriber to one blob.  The HashMap is   *)
(* iterated in an arbitrary order, which is an argument of the operators.  *)
(***************************************************************************)
\* Option::unwrap_or
UnwrapOr(o, d) == IF o = <<>> THEN d ELSE o[1]

\* ChainEpoch::MAX, at the width of the model's integers.
ChainEpochMax == 2147483647

\* struct Subscription: the fields the group functions read.
GroupEpochs == 1..MaxGroupEpoch
Subscription == [added : GroupEpochs, expiry : GroupEpochs, failed : BOOLEAN]

\* The SubscriptionGroups over the ids.
SubscriptionGroup == UNION {[ids -> Subscription] : ids \in SUBSET SubscriptionId}

\* The new_value arguments of max_expiries.
NewValues == {NoEpoch} \cup {Some(e) : e \in 1..(MaxGroupEpoch + 1)}

\* The orders in which subscriptions.iter() can visit the group.
IterOrders(g) ==
    {o \in [1..Cardinality(DOMAIN g) -> DOMAIN g] :
        \A i, j \in DOMAIN o : i # j => o[i] # o[j]}

\* The loop of max_expiries from the i-th subscription on.
RECURSIVE MaxExpiriesLoop(_, _, _, _, _, _, _)
MaxExpiriesLoop(g, order, i, target_id, new_value, max, new_max) ==
    IF i > Len(order)
    THEN <<max, new_max>>
    ELSE LET id == order[i]
             sub == g[id]
             max1 == IF sub.expiry > UnwrapOr(max, 0) THEN Some(sub.expiry) ELSE max
             value == IF id = target_id THEN UnwrapOr(new_value, 0) ELSE sub.expiry
             new_max1 == IF value > UnwrapOr(new_max, 0) THEN Some(value) ELSE new_max
         IN  IF sub.failed
             THEN MaxExpiriesLoop(g, order, i + 1, target_id, new_value, max, new_max)
             ELSE MaxExpiriesLoop(g, order, i + 1, target_id, new_value, max1, new_max1)

\* Variant that counts the new value only for a target the loop has met.
max_expiries_in_group_only(g, order, target_id, new_value) ==
    MaxExpiriesLoop(g, order, 1, target_id, new_value, NoEpoch, NoEpoch)

max_expiries(g, order, target_id, new_value) ==
    LET r == MaxExpiriesLoop(g, order, 1, target_id, new_value, NoEpoch, NoEpoch)
        new_max == IF new_value # NoEpoch /\ new_value[1] > UnwrapOr(r[2], 0)
                   THEN Some(new_value[1])
                   ELSE r[2]
    IN  <<r[1], new_max>>

RECURSIVE IsMinAddedLoop(_, _, _, _, _)
\* Variant that lets a failed subscription hold the minimum.
IsMinAddedLoop_counts_failed(g, order, i, trim_id, next_min) ==
    IF i > Len(order)
    THEN Ok(g, <<TRUE, next_min>>)
    ELSE LET id == order[i]
             sub == g[id]
         IN  IF id = trim_id
             THEN IsMinAddedLoop(g, order, i + 1, trim_id, next_min)
             ELSE IF sub.added < g[trim_id].added
             THEN Ok(g, <<FALSE, NoEpoch>>)
             ELSE IsMinAddedLoop(g, order, i + 1, trim_id,
                                 IF sub.added < UnwrapOr(next_min, ChainEpochMax)
                                 THEN Some(sub.added)
                                 ELSE next_min)

\* The loop of is_min_added from the i-th subscription on.
IsMinAddedLoop(g, order, i, trim_id, next_min) ==
    IF i > Len(order)
    THEN Ok(g, <<TRUE, next_min>>)
    ELSE LET id == order[i]
             sub == g[id]
         IN  IF sub.failed \/ id = trim_id
             THEN IsMinAddedLoop(g, order, i + 1, trim_id, next_min)
             ELSE IF sub.added < g[trim_id].added
             THEN Ok(g, <<FALSE, NoEpoch>>)
             ELSE IsMinAddedLoop(g, order, i + 1, trim_id,
                                 IF sub.added < UnwrapOr(next_min, ChainEpochMax)
                                 THEN Some(sub.added)
                                 ELSE next_min)

is_min_added(g, order, trim_id) ==
    IF trim_id \notin DOMAIN g
    THEN Err(g)
    ELSE IsMinAddedLoop(g, order, 1, trim_id, NoEpoch)

\* Any group can be the one stored for a subscriber.
GroupInit ==
    /\ StateInit
    /\ approvals = <<>>
    /\ subscriptions \in SubscriptionGroup
    /\ answer = NoAnswer

MaxExpiries ==
    /\ \E target_id \in SubscriptionId, new_value \in NewValues,
          order \in IterOrders(subscriptions) :
        answer' = [op |-> "max_expiries", id |-> target_id, new_value |-> new_value,
                   ok |-> TRUE,
                   ret |-> max_expiries(subscriptions, order, target_id, new_value)]
    /\ UNCHANGED <<stateVars, now, last, histVars, approvals, subscriptions>>

IsMinAdded ==
    /\ \E trim_id \in SubscriptionId, order \in IterOrders(subscriptions) :
        LET r == is_min_added(subscriptions, order, trim_id)
        IN  answer' = [op |-> "is_min_added", id |-> trim_id, new_value |-> NoEpoch,
                       ok |-> r.ok, ret |-> r.ret]
    /\ UNCHANGED <<stateVars, now, last, histVars, approvals, subscriptions>>

GroupNext ==
    \/ MaxExpiries
    \/ IsMinAdded

SpecGroup == GroupInit /\ [][GroupNext]_vars

(***************************************************************************)
(* Credit approvals (delegation).  The repository's source holds the       *)
(* CreditApproval type and the sponsor parameters only; approve, revoke   *)
(* and the delegation rule follow sections 4.2 and 4.3 of the              *)
(* specification, on top of State::add_blob with the sponsor as payer.     *)
(***************************************************************************)
\* struct CreditApproval { limit: Option<BigInt>, expiry: Option<ChainEpoch>, used: BigInt }
CreditApproval(limit, expiry, used) == [limit |-> limit, expiry |-> expiry, used |-> used]

\* The contract through which delegated calls arrive, and the limit and ttl
\* arguments of approve; an Option is <<>> or <<x>>.
Callers == {"C"}
ApprovalLimits == {NoEpoch, Some(MIN_TTL + MIN_TTL \div 2)}
ApprovalTTLs == {NoEpoch, Some(1)}

\* approve(from, receiver, required_caller?, limit?, ttl?, epoch): upsert
\* the approval, keeping its used counter; the limit cannot go below used.
approve_credit(ap, from, receiver, required_caller, limit, ttl, current_epoch) ==
    LET key == <<from, receiver, required_caller>>
        used == IF key \in DOMAIN ap THEN ap[key].used ELSE 0
        expiry == IF ttl = NoEpoch THEN NoEpoch ELSE Some(current_epoch + ttl[1])
    IN  IF limit # NoEpoch /\ limit[1] < used
        THEN Err(ap)
        ELSE Ok(MapInsert(ap, key, CreditApproval(limit, expiry, used)), None)

\* revoke(from, receiver, required_caller?): remove the entry.
revoke_credit(ap, from, receiver, required_caller) ==
    LET key == <<from, receiver, required_caller>>
    IN  IF key \in DOMAIN ap THEN Ok(MapRemove(ap, key), None) ELSE Err(ap)

\* The key of the approval that covers a call by origin through caller on
\* behalf of sponsor: the entry for the caller, else the entry for any
\* caller; <<>> when there is none.
ApprovalKey(ap, sponsor, origin, caller) ==
    IF <<sponsor, origin, caller>> \in DOMAIN ap THEN <<sponsor, origin, caller>>
    ELSE IF <<sponsor, origin, None>> \in DOMAIN ap THEN <<sponsor, origin, None>>
    ELSE <<>>

\* An approval whose expiry is the current epoch is expired.
ApprovalValid(approval, current_epoch) ==
    approval.expiry = NoEpoch \/ current_epoch < approval.expiry[1]

\* Variant that never compares used with the limit.
sponsored_add_blob_unlimited(s, ap, origin, caller, sponsor, current_epoch, hash, size, ttl, source) ==
    LET key == ApprovalKey(ap, sponsor, origin, caller)
        r == add_blob(s, sponsor, current_epoch, hash, size, ttl, source)
        spent == s.accounts[sponsor].credit_free - r.st.accounts[sponsor].credit_free
    IN  IF key = <<>>
        THEN [st |-> s, ap |-> ap, ok |-> FALSE]
        ELSE IF ~ApprovalValid(ap[key], current_epoch)
        THEN [st |-> s, ap |-> ap, ok |-> FALSE]
        ELSE IF ~r.ok
        THEN [st |-> s, ap |-> ap, ok |-> FALSE]
        ELSE [st |-> r.st, ap |-> [ap EXCEPT ![key].used = @ + spent], ok |-> TRUE]

\* add_blob by origin through caller with the sponsor as payer: the
\* approval must exist and be valid, the credit the call spends is added to
\* its used counter, and the call fails when that would exceed the limit.
sponsored_add_blob(s, ap, origin, caller, sponsor, current_epoch, hash, size, ttl, source) ==
    LET key == ApprovalKey(ap, sponsor, origin, caller)
        r == add_blob(s, sponsor, current_epoch, hash, size, ttl, source)
        spent == s.accounts[sponsor].credit_free - r.st.accounts[sponsor].credit_free
    IN  IF key = <<>>
        THEN [st |-> s, ap |-> ap, ok |-> FALSE]
        ELSE IF ~ApprovalValid(ap[key], current_epoch)
        THEN [st |-> s, ap |-> ap, ok |-> FALSE]
        ELSE IF ~r.ok
        THEN [st |-> s, ap |-> ap, ok |-> FALSE]
        ELSE IF ap[key].limit # NoEpoch /\ ap[key].used + spent > ap[key].limit[1]
        THEN [st |-> s, ap |-> ap, ok |-> FALSE]
        ELSE [st |-> r.st, ap |-> [ap EXCEPT ![key].used = @ + spent], ok |-> TRUE]

\* The calls of a behaviour with approvals: one less, for the larger choice
\* of arguments.
MaxApprovalCalls == MaxCalls - 1

ApproveCredit ==
    /\ calls < MaxApprovalCalls
    /\ \E from \in DOMAIN accounts, receiver \in Address, required_caller \in Callers \cup {None},
          limit \in ApprovalLimits, ttl \in ApprovalTTLs :
        LET r == approve_credit(approvals, from, receiver, required_caller, limit, ttl, now)
        IN  /\ receiver # from
            /\ approvals' = r.st
            /\ last' = Call("approve_credit", r.ok)
    /\ calls' = calls + 1
    /\ UNCHANGED <<stateVars, now, minted, branch, added_at, held, groupVars>>

RevokeCredit ==
    /\ calls < MaxApprovalCalls
    /\ \E key \in DOMAIN approvals :
        LET r == revoke_credit(approvals, key[1], key[2], key[3])
        IN  /\ approvals' = r.st
            /\ last' = Call("revoke_credit", r.ok)
    /\ calls' = calls + 1
    /\ UNCHANGED <<stateVars, now, minted, branch, added_at, held, groupVars>>

SponsoredAddBlob ==
    /\ calls < MaxApprovalCalls
    /\ \E origin \in Address, caller \in Callers, sponsor \in DOMAIN accounts,
          hash \in FreshOrKnown(Hash, DOMAIN blobs), size \in Sizes, ttl \in TTLs,
          source \in PublicKey :
        LET r == sponsored_add_blob(St, approvals, origin, caller, sponsor, now, hash, size, ttl, source)
        IN  /\ Apply(r.st)
            /\ approvals' = r.ap
            /\ last' = Call("sponsored_add_blob", r.ok)
            /\ added_at' = IF r.ok THEN TrackAdded(added_at, r.st.blobs, now) ELSE added_at
    /\ calls' = calls + 1
    /\ UNCHANGED <<now, minted, branch, held, groupVars>>

ApprovalNext ==
    \/ Tick
    \/ calls < MaxApprovalCalls /\ BuyCredit
    \/ ApproveCredit
    \/ RevokeCredit
    \/ SponsoredAddBlob

SpecApproval == Init /\ [][ApprovalNext]_vars

(***************************************************************************)
(* Properties.                                                             *)
(***************************************************************************)
RECURSIVE SumOver(_, _)
SumOver(f, S) ==
    IF S = {}
    THEN 0
    ELSE LET x == CHOOSE y \in S : TRUE
         IN  f[x] + SumOver(f, S \ {x})

\* Sum of credit_committed over all accounts.
SumAccountCommitted ==
    SumOver([a \in DOMAIN accounts |-> accounts[a].credit_committed],
            DOMAIN accounts)

\* Sum of the sizes of the blobs that have a subscriber and are not Failed.
SumActiveBlobSizes ==
    LET active == {h \in DOMAIN blobs :
                     DOMAIN blobs[h].subs # {} /\ blobs[h].status # Failed}
    IN  SumOver([h \in active |-> blobs[h].size], active)

\* Sum of the sizes of the blobs on which address holds a subscription.
SumSubscribedSizes(address) ==
    LET mine == {h \in DOMAIN blobs : address \in DOMAIN blobs[h].subs}
    IN  SumOver([h \in mine |-> blobs[h].size], mine)

\* C1: in every reachable state the global credit_committed equals the sum
\* of credit_committed over all accounts.
C1_CommittedIsSumOfAccounts ==
    credit_committed = SumAccountCommitted

\* A tick of debit_accounts has debited two accounts that both still have
\* committed credit.
C1_Witness ==
    /\ last = Call("debit_accounts", TRUE)
    /\ credit_debited > 0
    /\ Cardinality({a \in DOMAIN accounts : accounts[a].credit_committed > 0}) = 2

\* C2: in every reachable state the global capacity_used equals the sum of
\* the sizes of the blobs that have at least one non-failed subscription,
\* each blob counted once.
C2_CapacityUsedIsSumOfBlobs ==
    capacity_used = SumActiveBlobSizes

C4_IndexEntriesAreSubscriptions ==
    \A e \in DOMAIN expiries : \A a \in DOMAIN expiries[e] :
        LET h == expiries[e][a]
        IN  /\ h \in DOMAIN blobs
            /\ a \in DOMAIN blobs[h].subs
            /\ blobs[h].subs[a].expiry = e

\* add_blob has filled the index with entries at two epochs, one of them
\* shared by two subscribers.
C4_Witness ==
    /\ last = Call("add_blob", TRUE)
    /\ Cardinality(DOMAIN expiries) >= 2
    /\ \E e \in DOMAIN expiries : Cardinality(DOMAIN expiries[e]) = 2

\* C5: in every reachable state, for every blob and every subscriber with a
\* subscription of expiry e on it, the expiry index contains the entry
\* (e, subscriber, hash).
C5_SubscriptionsAreIndexed ==
    \A h \in DOMAIN blobs : \A a \in DOMAIN blobs[h].subs :
        LET e == blobs[h].subs[a].expiry
        IN  /\ e \in DOMAIN expiries
            /\ a \in DOMAIN expiries[e]
            /\ expiries[e][a] = h

\* C6: whenever buy_credit, add_blob, finalize_blob, delete_blob or
\* debit_accounts returns an error, the whole State (counters, accounts,
\* blobs, expiry index, pending set) is the State before the call.
C6_ErrorsLeaveStateUnchanged ==
    [][~last'.ok => UNCHANGED stateVars]_vars

\* add_blob has returned an error in a state that holds blobs and committed
\* credit.
C6_Witness ==
    /\ last = Call("add_blob", FALSE)
    /\ DOMAIN blobs # {}
    /\ credit_committed > 0

\* C7: in every reachable state each account's capacity_used equals the sum
\* of the sizes of the blobs on which the account holds a subscription.
C7_AccountCapacityIsSumOfBlobs ==
    \A a \in DOMAIN accounts :
        accounts[a].capacity_used = SumSubscribedSizes(a)

\* The effect of buy_credit(address, amount, now) in the current state.
BuyCreditEffect ==
    \A address \in Address, amount \in AttoAmounts \cup {0, 1} :
        LET r == buy_credit(St, address, amount, now)
            credits == credit_debit_rate * amount
            before == IF address \in DOMAIN accounts
                      THEN accounts[address].credit_free
                      ELSE 0
        IN  r.ok =>
                /\ r.st.credit_sold = credit_sold + credits
                /\ address \in DOMAIN r.st.accounts
                /\ r.st.accounts[address].credit_free = before + credits
                /\ address \notin DOMAIN accounts =>
                       r.st.accounts[address].last_debit_epoch = now
                /\ \A other \in DOMAIN accounts \ {address} :
                       r.st.accounts[other] = accounts[other]

\* Only a successful buy_credit changes credit_sold.
OnlyBuyCreditSells ==
    credit_sold' # credit_sold => last' = Call("buy_credit", TRUE)

\* C8: a successful buy_credit(addr, tokens, epoch) adds credit_debit_rate *
\* atto(tokens) to addr's credit_free and to credit_sold, creating the
\* account with last_debit_epoch = epoch if absent; no other operation
\* changes credit_sold, which is the sum of the credits minted.
C8_BuyCreditMints ==
    /\ [](credit_sold = minted /\ BuyCreditEffect)
    /\ [][OnlyBuyCreditSells]_vars

\* buy_credit has topped up an existing account at a later epoch than the
\* one the account was created at.
C8_Witness ==
    /\ last = Call("buy_credit", TRUE)
    /\ now > 0
    /\ \E a \in DOMAIN accounts :
        /\ accounts[a].last_debit_epoch < now
        /\ accounts[a].credit_free + accounts[a].credit_committed
               > credit_debit_rate * 6

\* C9: when the subnet is full, capacity_used = capacity_free, buy_credit is
\* rejected and creates no account and changes no counter.
C9_BuyCreditRefusedWhenFull ==
    capacity_used = capacity_free =>
        \A address \in Address, amount \in AttoAmounts \cup {0, 1} :
            LET r == buy_credit(St, address, amount, now)
            IN  /\ ~r.ok
                /\ r.st = St

\* buy_credit has been rejected on a full subnet.
C9_Witness ==
    /\ last = Call("buy_credit", FALSE)
    /\ capacity_used = capacity_free
    /\ capacity_used > 0

\* C10: add_blob of a hash that is not in the registry, by an account whose
\* credit_free is at least size * ttl, succeeds; it creates the blob in
\* status Added with the caller as only subscriber and expiry = epoch + ttl,
\* adds size to the global and to the account's capacity_used, takes
\* size * ttl from the account's credit_free and adds size * ttl to the
\* account's and the global credit_committed (after the debit for the
\* account's existing usage up to the epoch).
C10_AddNewBlob ==
    \A sender \in DOMAIN accounts, hash \in Hash \ DOMAIN blobs, size \in Sizes,
       ttl \in {x \in TTLs : x >= MIN_TTL}, source \in PublicKey :
        LET acc == accounts[sender]
            cost == size * ttl
            debit == (now - acc.last_debit_epoch) * acc.capacity_used
            r == add_blob(St, sender, now, hash, size, ttl, source)
        IN  acc.credit_free >= cost =>
                /\ r.ok
                /\ DOMAIN r.st.blobs = DOMAIN blobs \cup {hash}
                /\ r.st.blobs[hash].status = Added(now)
                /\ r.st.blobs[hash].size = size
                /\ DOMAIN r.st.blobs[hash].subs = {sender}
                /\ r.st.blobs[hash].subs[sender].expiry = now + ttl
                /\ r.st.capacity_used = capacity_used + size
                /\ r.st.accounts[sender].capacity_used = acc.capacity_used + size
                /\ r.st.accounts[sender].credit_free = acc.credit_free - cost
                /\ r.st.accounts[sender].credit_committed =
                       acc.credit_committed - debit + cost
                /\ r.st.credit_committed = credit_committed - debit + cost
                /\ r.st.credit_debited = credit_debited + debit

\* add_blob has created a second blob for an account that already had
\* usage to debit.
C10_Witness ==
    /\ last = Call("add_blob", TRUE)
    /\ credit_debited > 0
    /\ \E h \in DOMAIN blobs : \E a \in DOMAIN blobs[h].subs :
        /\ blobs[h].status = Added(now)
        /\ DOMAIN blobs[h].subs = {a}
        /\ accounts[a].capacity_used > blobs[h].size
        /\ accounts[a].last_debit_epoch = now

\* C11: add_blob by an account that does not yet subscribe to an existing
\* blob, with credit_free of at least size * ttl, succeeds; the global
\* capacity_used is unchanged, the new subscriber's capacity_used grows by
\* size, the full size * ttl leaves its credit_free, and the accounts of the
\* other subscribers are unchanged.
C11_AddBlobNewSubscriber ==
    \A sender \in DOMAIN accounts, hash \in DOMAIN blobs, size \in Sizes,
       ttl \in {x \in TTLs : x >= MIN_TTL}, source \in PublicKey :
        LET acc == accounts[sender]
            cost == size * ttl
            r == add_blob(St, sender, now, hash, size, ttl, source)
        IN  (sender \notin DOMAIN blobs[hash].subs /\ acc.credit_free >= cost) =>
                /\ r.ok
                /\ DOMAIN r.st.blobs[hash].subs = DOMAIN blobs[hash].subs \cup {sender}
                /\ r.st.blobs[hash].subs[sender].expiry = now + ttl
                /\ r.st.capacity_used = capacity_used
                /\ r.st.accounts[sender].capacity_used = acc.capacity_used + size
                /\ r.st.accounts[sender].credit_free = acc.credit_free - cost
                /\ \A other \in DOMAIN accounts \ {sender} :
                       r.st.accounts[other] = accounts[other]

\* add_blob has made a second account a subscriber of a blob: both accounts
\* use capacity and the blob is counted once in the network capacity.
C11_Witness ==
    /\ last = Call("add_blob", TRUE)
    /\ \E h \in DOMAIN blobs :
        /\ DOMAIN blobs = {h}
        /\ Cardinality(DOMAIN blobs[h].subs) = 2
        /\ capacity_used = blobs[h].size
        /\ \A a \in DOMAIN blobs[h].subs :
               /\ accounts[a].capacity_used = blobs[h].size
               /\ accounts[a].credit_committed > 0

\* C12: when add_blob is called by an account that already subscribes to
\* the blob, the credit moved from its credit_free to its credit_committed
\* is the signed amount (new_expiry - old_expiry) * size: the call succeeds
\* whenever credit_free covers that amount, a later expiry commits the
\* difference and an earlier expiry frees it.
C12_SignedExpiryChange ==
    \A sender \in DOMAIN accounts, hash \in DOMAIN blobs,
       ttl \in {x \in TTLs : x >= MIN_TTL}, source \in PublicKey :
        sender \in DOMAIN blobs[hash].subs =>
            LET acc == accounts[sender]
                size == blobs[hash].size
                moved == (now + ttl - blobs[hash].subs[sender].expiry) * size
                debit == (now - acc.last_debit_epoch) * acc.capacity_used
                r == add_blob(St, sender, now, hash, size, ttl, source)
            IN  acc.credit_free >= moved =>
                    /\ r.ok
                    /\ r.st.accounts[sender].credit_free = acc.credit_free - moved
                    /\ r.st.accounts[sender].credit_committed =
                           acc.credit_committed - debit + moved

\* C13: add_blob with ttl = MIN_TTL is accepted when the account exists and
\* its credit_free covers the credit the call requires; add_blob with
\* ttl = MIN_TTL - 1 is rejected and leaves the State unchanged.
C13_MinTtlBoundary ==
    \A sender \in Address, hash \in Hash, size \in Sizes, source \in PublicKey :
        LET below == add_blob(St, sender, now, hash, size, MIN_TTL - 1, source)
            at == add_blob(St, sender, now, hash, size, MIN_TTL, source)
            required == IF hash \in DOMAIN blobs /\ sender \in DOMAIN blobs[hash].subs
                        THEN AsU64(now + MIN_TTL - blobs[hash].subs[sender].expiry) * size
                        ELSE MIN_TTL * size
        IN  /\ ~below.ok
            /\ below.st = St
            /\ (sender \in DOMAIN accounts /\ accounts[sender].credit_free >= required)
                   => at.ok

\* add_blob has been accepted with ttl = MIN_TTL: the only subscription
\* there is expires MIN_TTL after the epoch of the call.
C13_Witness ==
    /\ last = Call("add_blob", TRUE)
    /\ now > 0
    /\ \E h \in DOMAIN blobs : \E a \in DOMAIN accounts :
        /\ DOMAIN blobs = {h}
        /\ DOMAIN blobs[h].subs = {a}
        /\ blobs[h].subs[a].expiry = now + MIN_TTL
        /\ blobs[h].status = Added(now)

\* The terminal statuses, the only ones finalize_blob accepts.
TerminalStatus == {Resolved, Failed}

C16_AbsentBlobSucceedsForAnyAddress ==
    \A from \in Address, hash \in Hash \ DOMAIN blobs, status \in TerminalStatus :
        LET r == finalize_blob(St, from, hash, status)
        IN  /\ r.ok
            /\ r.st = St

\* C16, amended: finalize_blob with a terminal status for a hash that is not
\* in the registry leaves the State unchanged; it returns success for an
\* address that has an account and an error for an address that has none.
C16_AbsentBlobNoOp ==
    \A from \in Address, hash \in Hash \ DOMAIN blobs, status \in TerminalStatus :
        LET r == finalize_blob(St, from, hash, status)
        IN  /\ r.ok <=> from \in DOMAIN accounts
            /\ r.st = St

\* finalize_blob has returned success for a hash that is not in the
\* registry.
C16_Witness ==
    /\ last = Call("finalize_blob", TRUE)
    /\ branch = "absent"
    /\ DOMAIN accounts # {}
    /\ DOMAIN blobs # Hash

\* C17, as stated: finalize_blob with a terminal status for an existing blob
\* on which the address holds no subscription returns an error and leaves
\* the State unchanged.
C17_UnsubscribedFinalizeFails ==
    \A from \in Address, hash \in DOMAIN blobs, status \in TerminalStatus :
        from \notin DOMAIN blobs[hash].subs =>
            LET r == finalize_blob(St, from, hash, status)
            IN  /\ ~r.ok
                /\ r.st = St

\* C17, amended: finalize_blob with a terminal status for an existing blob
\* on which the address holds no subscription leaves the State unchanged;
\* it returns an error while the blob is not finalized (status Added) or
\* when the address has no account, and success when the address has an
\* account and the blob is already Resolved or Failed.
C17_UnsubscribedFinalizeNoOp ==
    \A from \in Address, hash \in DOMAIN blobs, status \in TerminalStatus :
        from \notin DOMAIN blobs[hash].subs =>
            LET r == finalize_blob(St, from, hash, status)
            IN  /\ r.ok <=> (/\ from \in DOMAIN accounts
                             /\ blobs[hash].status.tag # "Added")
                /\ r.st = St

\* finalize_blob has been rejected because the finalizing account is not
\* subscribed to the pending blob.
C17_Witness ==
    /\ last = Call("finalize_blob", FALSE)
    /\ branch = "not_subscribed"
    /\ \E h \in DOMAIN pending : \E a \in DOMAIN accounts :
        a \notin DOMAIN blobs[h].subs

\* C18: finalize_blob is idempotent under repeated delivery of the same
\* terminal status: finalize_blob(from, hash, status) applied to the State
\* that the same call has produced returns the same result and leaves that
\* State unchanged, so the refund and the reclaim of Failed are applied
\* once.
C18_FinalizeIdempotent ==
    \A from \in Address, hash \in Hash, status \in TerminalStatus :
        LET r1 == finalize_blob(St, from, hash, status)
            r2 == finalize_blob(r1.st, from, hash, status)
        IN  /\ r2.ok = r1.ok
            /\ r2.ret = r1.ret
            /\ r2.st = r1.st

\* The status Failed has been delivered again for the only subscription of
\* a blob that was already Failed.
C18_Witness ==
    /\ last = Call("finalize_blob", TRUE)
    /\ branch = "same"
    /\ \E a \in DOMAIN accounts : \E h \in DOMAIN blobs :
        /\ DOMAIN accounts = {a}
        /\ DOMAIN blobs = {h}
        /\ DOMAIN blobs[h].subs = {a}
        /\ blobs[h].status = Failed
        /\ accounts[a].capacity_used = 0

\* C19, as stated: once a blob is finalized with one terminal status,
\* finalize_blob for a subscription on it with the other terminal status
\* returns an error.
C19_ConflictingStatusRejected ==
    \A from \in DOMAIN accounts, hash \in DOMAIN blobs, status \in TerminalStatus :
        (/\ from \in DOMAIN blobs[hash].subs
         /\ blobs[hash].status \in TerminalStatus
         /\ blobs[hash].status # status) =>
            ~finalize_blob(St, from, hash, status).ok

\* C19, amended: once a blob is finalized with one terminal status,
\* finalize_blob for a subscription on it with the other terminal status
\* has no effect: it returns success and the State, with the first status,
\* is unchanged.
C19_ConflictingStatusIgnored ==
    \A from \in DOMAIN accounts, hash \in DOMAIN blobs, status \in TerminalStatus :
        (/\ from \in DOMAIN blobs[hash].subs
         /\ blobs[hash].status \in TerminalStatus
         /\ blobs[hash].status # status) =>
            LET r == finalize_blob(St, from, hash, status)
            IN  /\ r.ok
                /\ r.st = St

\* The other terminal status has been delivered for the only subscription
\* of a finalized blob.
C19_Witness ==
    /\ last = Call("finalize_blob", TRUE)
    /\ branch = "conflict"
    /\ \E a \in DOMAIN accounts : \E h \in DOMAIN blobs :
        /\ DOMAIN accounts = {a}
        /\ DOMAIN blobs = {h}
        /\ DOMAIN blobs[h].subs = {a}

\* C20: a successful finalize_blob with status Resolved changes nothing but
\* the status of the blob and the pending set: the counters, the accounts,
\* the expiry index, the other blobs and the size and subscriptions of the
\* blob are unchanged; when it finalizes a pending blob the status becomes
\* Resolved and the hash leaves the pending set.
C20_ResolvedFrame ==
    \A from \in Address, hash \in Hash :
        LET r == finalize_blob(St, from, hash, Resolved)
        IN  r.ok =>
                /\ r.st.capacity_free = capacity_free
                /\ r.st.capacity_used = capacity_used
                /\ r.st.credit_sold = credit_sold
                /\ r.st.credit_committed = credit_committed
                /\ r.st.credit_debited = credit_debited
                /\ r.st.credit_debit_rate = credit_debit_rate
                /\ r.st.accounts = accounts
                /\ r.st.expiries = expiries
                /\ DOMAIN r.st.blobs = DOMAIN blobs
                /\ \A h \in DOMAIN blobs :
                       /\ r.st.blobs[h].size = blobs[h].size
                       /\ r.st.blobs[h].subs = blobs[h].subs
                       /\ h # hash => r.st.blobs[h] = blobs[h]
                /\ \A h \in DOMAIN r.st.pending :
                       h \in DOMAIN pending /\ r.st.pending[h] = pending[h]
                /\ DOMAIN pending \ {hash} \subseteq DOMAIN r.st.pending
                /\ (hash \in DOMAIN blobs /\ blobs[hash].status.tag = "Added") =>
                       /\ r.st.blobs[hash].status = Resolved
                       /\ hash \notin DOMAIN r.st.pending

\* finalize_blob has resolved one blob while another blob of an account
\* with committed credit is still pending.
C20_Witness ==
    /\ last = Call("finalize_blob", TRUE)
    /\ branch = "resolved"
    /\ credit_committed > 0
    /\ DOMAIN pending # {}
    /\ \E h \in DOMAIN blobs :
        /\ blobs[h].status = Resolved
        /\ h \notin DOMAIN pending

\* C21: finalize_blob with status Failed on a pending blob takes the size
\* from the failing subscriber's capacity_used, and from the global
\* capacity_used only when no other subscriber holds a subscription on the
\* blob; with another subscriber left the global capacity_used is unchanged.
C21_FailedReclaimsCapacity ==
    \A from \in DOMAIN accounts, hash \in DOMAIN blobs :
        (blobs[hash].status.tag = "Added" /\ from \in DOMAIN blobs[hash].subs) =>
            LET size == blobs[hash].size
                r == finalize_blob(St, from, hash, Failed)
            IN  /\ r.ok
                /\ r.st.accounts[from].capacity_used =
                       accounts[from].capacity_used - size
                /\ r.st.capacity_used =
                       IF DOMAIN blobs[hash].subs = {from}
                       THEN capacity_used - size
                       ELSE capacity_used

\* C22: finalize_blob with status Failed on a pending blob gives the
\* subscriber back (last_debit_epoch - added) * size of debited credit,
\* taken from the global credit_debited, and (expiry - last_debit_epoch) *
\* size of committed credit, taken from the account's and the global
\* credit_committed, where added is the epoch at which that subscriber's
\* subscription was created: (expiry - added) * size in total.
C22_FailedRefund ==
    \A from \in DOMAIN accounts, hash \in DOMAIN blobs :
        (blobs[hash].status.tag = "Added" /\ from \in DOMAIN blobs[hash].subs) =>
            LET acc == accounts[from]
                size == blobs[hash].size
                expiry == blobs[hash].subs[from].expiry
                added == added_at[hash][from]
                spent == (acc.last_debit_epoch - added) * size
                forward == IF expiry > acc.last_debit_epoch
                           THEN (expiry - acc.last_debit_epoch) * size
                           ELSE 0
                r == finalize_blob(St, from, hash, Failed)
            IN  /\ r.ok
                /\ r.st.accounts[from].credit_free = acc.credit_free + spent + forward
                /\ r.st.credit_debited = credit_debited - spent
                /\ r.st.accounts[from].credit_committed = acc.credit_committed - forward
                /\ r.st.credit_committed = credit_committed - forward

\* C23: finalize_blob for one subscriber removes only the tuples of that
\* subscriber from pending[hash]; the tuples queued by the other
\* subscribers of the blob remain, and the key is removed only when the set
\* becomes empty.
C23_TuplesFinalizedIndependently ==
    \A from \in DOMAIN accounts, hash \in DOMAIN pending, status \in TerminalStatus :
        (blobs[hash].status.tag = "Added" /\ from \in DOMAIN blobs[hash].subs) =>
            LET rest == {tuple \in pending[hash] : tuple[1] # from}
                r == finalize_blob(St, from, hash, status)
            IN  /\ r.ok
                /\ IF rest = {}
                   THEN hash \notin DOMAIN r.st.pending
                   ELSE /\ hash \in DOMAIN r.st.pending
                        /\ r.st.pending[hash] = rest

\* C24: delete_blob at an epoch before the expiry of the subscription, on a
\* blob that is not Failed, debits the account (epoch - last_debit_epoch) *
\* capacity_used from committed to debited credit and sets last_debit_epoch
\* to the epoch, then moves (expiry - epoch) * size from the account's and
\* the global credit_committed to the account's credit_free, takes the size
\* from the account's capacity_used and removes the subscription; the blob
\* stays with its other subscribers.
C24_DeleteBeforeExpiry ==
    \A sender \in DOMAIN accounts, hash \in DOMAIN blobs :
        (/\ sender \in DOMAIN blobs[hash].subs
         /\ blobs[hash].status # Failed
         /\ now < blobs[hash].subs[sender].expiry) =>
            LET acc == accounts[sender]
                size == blobs[hash].size
                debit == (now - acc.last_debit_epoch) * acc.capacity_used
                refund == (blobs[hash].subs[sender].expiry - now) * size
                others == DOMAIN blobs[hash].subs \ {sender}
                r == delete_blob(St, sender, now, hash)
            IN  /\ r.ok
                /\ r.st.credit_debited = credit_debited + debit
                /\ r.st.credit_committed = credit_committed - debit - refund
                /\ r.st.accounts[sender] =
                       [capacity_used |-> acc.capacity_used - size,
                        credit_free |-> acc.credit_free + refund,
                        credit_committed |-> acc.credit_committed - debit - refund,
                        last_debit_epoch |-> now]
                /\ r.ret.account = r.st.accounts[sender]
                /\ \A other \in DOMAIN accounts \ {sender} :
                       r.st.accounts[other] = accounts[other]
                /\ others # {} =>
                       /\ hash \in DOMAIN r.st.blobs
                       /\ DOMAIN r.st.blobs[hash].subs = others
                       /\ \A o \in others :
                              r.st.blobs[hash].subs[o] = blobs[hash].subs[o]

\* delete_blob, at an epoch after the account's last debit, has removed one
\* of the two subscriptions of a blob before it expired.
C24_Witness ==
    /\ last = Call("delete_blob", TRUE)
    /\ now > 0
    /\ credit_debited > 0
    /\ \E h \in DOMAIN blobs : \E a \in DOMAIN accounts :
        /\ DOMAIN blobs = {h}
        /\ DOMAIN blobs[h].subs # {}
        /\ a \notin DOMAIN blobs[h].subs
        /\ accounts[a].last_debit_epoch = now
        /\ accounts[a].capacity_used = 0
        /\ accounts[a].credit_committed = 0

\* C25: when the only subscriber of a blob that is not Failed deletes it at
\* the epoch of its expiry, the account's credit_free is unchanged and the
\* global capacity_used decreases by the size of the blob.
C25_LastDeleteAtExpiry ==
    \A sender \in DOMAIN accounts, hash \in DOMAIN blobs :
        (/\ DOMAIN blobs[hash].subs = {sender}
         /\ blobs[hash].status # Failed
         /\ now = blobs[hash].subs[sender].expiry) =>
            LET r == delete_blob(St, sender, now, hash)
            IN  /\ r.ok
                /\ r.st.accounts[sender].credit_free = accounts[sender].credit_free
                /\ r.st.capacity_used = capacity_used - blobs[hash].size

\* C26: every blob of the registry has at least one subscriber; a
\* successful delete_blob returns blob_deleted = true and removes the blob
\* from the registry and the hash from the pending set exactly when it
\* removed the last subscription of the blob, and otherwise returns false
\* and leaves the blob with the other subscriptions.
C26_BlobsHaveSubscribers ==
    /\ \A h \in DOMAIN blobs : DOMAIN blobs[h].subs # {}
    /\ \A sender \in Address, hash \in Hash :
        LET r == delete_blob(St, sender, now, hash)
        IN  r.ok =>
                /\ r.ret.deleted <=> DOMAIN blobs[hash].subs = {sender}
                /\ IF r.ret.deleted
                   THEN /\ DOMAIN r.st.blobs = DOMAIN blobs \ {hash}
                        /\ hash \notin DOMAIN r.st.pending
                   ELSE /\ DOMAIN r.st.blobs = DOMAIN blobs
                        /\ DOMAIN r.st.blobs[hash].subs =
                               DOMAIN blobs[hash].subs \ {sender}
                        /\ r.st.pending = pending

\* The only account has deleted one of its two blobs: the blob it was the
\* last subscriber of is gone, the other blob stays.
C26_Witness ==
    /\ last = Call("delete_blob", TRUE)
    /\ \E a \in DOMAIN accounts : \E h \in DOMAIN blobs :
        /\ DOMAIN accounts = {a}
        /\ DOMAIN blobs = {h}
        /\ DOMAIN blobs[h].subs = {a}
        /\ DOMAIN pending = {h}

\* C27: delete_blob before the expiry followed at once, at the same epoch,
\* by the add_blob that reproduces the deleted subscription (same
\* subscriber, hash, size, source and expiry) restores the accounts, the
\* blob registry and the global capacity_used and credit_committed to their
\* values before the delete.
C27_DeleteReAddRoundTrip ==
    \A sender \in DOMAIN accounts, hash \in DOMAIN blobs :
        (/\ sender \in DOMAIN blobs[hash].subs
         /\ now < blobs[hash].subs[sender].expiry) =>
            LET sub == blobs[hash].subs[sender]
                d == delete_blob(St, sender, now, hash)
                a == add_blob(d.st, sender, now, hash, blobs[hash].size,
                              sub.expiry - now, sub.source)
            IN  /\ d.ok
                /\ a.ok
                /\ a.st.accounts = accounts
                /\ a.st.blobs = blobs
                /\ a.st.capacity_used = capacity_used
                /\ a.st.credit_committed = credit_committed

\* C28: after a successful debit_accounts(epoch) no blob holds a
\* subscription whose expiry is at most epoch, the expiry index has no key
\* at most epoch, and the blobs that lost their last subscriber are gone
\* from the registry and are the returned set.
C28_DebitAccountsReapsExpired ==
    \A entry_order \in EntryOrders(ExpiredEntries(expiries, now)),
       account_order \in AccountOrders(accounts) :
        LET r == debit_accounts(St, now, entry_order, account_order)
        IN  r.ok =>
                /\ \A h \in DOMAIN r.st.blobs : \A a \in DOMAIN r.st.blobs[h].subs :
                       r.st.blobs[h].subs[a].expiry > now
                /\ \A e \in DOMAIN r.st.expiries : e > now
                /\ r.ret = DOMAIN blobs \ DOMAIN r.st.blobs

\* The step was a successful debit_accounts that left the credit_free of
\* every account as it was and set every last_debit_epoch to the epoch.
ReapWithoutRefund ==
    last' = Call("debit_accounts", TRUE) =>
        /\ DOMAIN accounts' = DOMAIN accounts
        /\ \A a \in DOMAIN accounts :
               /\ accounts'[a].credit_free = accounts[a].credit_free
               /\ accounts'[a].last_debit_epoch = now'

\* C29: debit_accounts(epoch) leaves the credit_free of every account
\* unchanged, whatever it reaps, and after it every account has
\* last_debit_epoch = epoch.
C29_ReapNeverRefunds ==
    [][ReapWithoutRefund]_vars

\* debit_accounts has reaped the only subscription of an account, after
\* its expiry, and debited the account.
C29_Witness ==
    /\ last = Call("debit_accounts", TRUE)
    /\ DOMAIN blobs = {}
    /\ \E a \in DOMAIN accounts :
        /\ Holds(held[a])
        /\ now > held[a].expiry
        /\ accounts[a].last_debit_epoch = now
        /\ accounts[a].credit_free + held[a].cost = held[a].paid

\* C30: a subscription held for its whole term costs size * ttl: when the
\* only subscription an account ever had is one add_blob of size s and ttl
\* d, never extended, deleted by the account or Failed, then after a
\* debit_accounts at an epoch at or after the expiry the credit debited
\* from the account (what it bought less what it has free or committed) is
\* s * d and its credit_committed is 0, whatever debit_accounts calls ran
\* in between.
C30_FullTermCost ==
    last = Call("debit_accounts", TRUE) =>
        \A a \in Address :
            (Holds(held[a]) /\ now >= held[a].expiry) =>
                /\ a \in DOMAIN accounts
                /\ held[a].paid - accounts[a].credit_free
                       - accounts[a].credit_committed = held[a].cost
                /\ accounts[a].credit_committed = 0

\* C31: the post-state and the returned set of debit_accounts(epoch) are
\* the same for every order in which the expiry entries that share an epoch,
\* and the accounts, are visited.
C31_DebitAccountsOrderIndependent ==
    LET entry_orders == EntryOrders(ExpiredEntries(expiries, now))
        account_orders == AccountOrders(accounts)
        one == debit_accounts(St, now, CHOOSE o \in entry_orders : TRUE,
                              CHOOSE a \in account_orders : TRUE)
    IN  \A o \in entry_orders, a \in account_orders :
            debit_accounts(St, now, o, a) = one

\* debit_accounts has reaped two subscriptions that expired at the same
\* epoch, held by two accounts.
C31_Witness ==
    /\ last = Call("debit_accounts", TRUE)
    /\ Cardinality(DOMAIN accounts) = 2
    /\ DOMAIN blobs = {}
    /\ \A a \in DOMAIN accounts :
        /\ Holds(held[a])
        /\ held[a].expiry = MIN_TTL
        /\ accounts[a].last_debit_epoch = now

\* The largest and the smallest element of a set of epochs, as an Option.
MaxOf(S) == IF S = {} THEN NoEpoch ELSE Some(CHOOSE x \in S : \A y \in S : y <= x)
MinOf(S) == IF S = {} THEN NoEpoch ELSE Some(CHOOSE x \in S : \A y \in S : x <= y)

\* The expiries of the non-failed subscriptions of g other than id.
OtherExpiries(g, id) == {g[x].expiry : x \in {y \in DOMAIN g \ {id} : ~g[y].failed}}

\* C33: max_expiries returns (max_before, max_after): max_before is the
\* largest expiry among the non-failed subscriptions of the group, max_after
\* the largest expiry among the non-failed subscriptions once the target's
\* expiry is replaced by new_value (the target is counted with new_value
\* when it is not in the group, and dropped when new_value is none); a
\* component is none when no subscription contributes.
C33_MaxExpiries ==
    \A target_id \in SubscriptionId, new_value \in NewValues,
       order \in IterOrders(subscriptions) :
        LET g == subscriptions
            before == {g[x].expiry : x \in {y \in DOMAIN g : ~g[y].failed}}
            counted == /\ new_value # NoEpoch
                       /\ target_id \in DOMAIN g => ~g[target_id].failed
            after == OtherExpiries(g, target_id)
                         \cup (IF counted THEN {new_value[1]} ELSE {})
        IN  max_expiries(g, order, target_id, new_value) = <<MaxOf(before), MaxOf(after)>>

\* C33 as amended: the target is counted with new_value whenever new_value
\* is given, whether the target is in the group, not in it, or marked
\* failed.
C33_MaxExpiriesCountsNewValue ==
    \A target_id \in SubscriptionId, new_value \in NewValues,
       order \in IterOrders(subscriptions) :
        LET g == subscriptions
            before == {g[x].expiry : x \in {y \in DOMAIN g : ~g[y].failed}}
            after == OtherExpiries(g, target_id)
                         \cup (IF new_value # NoEpoch THEN {new_value[1]} ELSE {})
        IN  max_expiries(g, order, target_id, new_value) = <<MaxOf(before), MaxOf(after)>>

\* max_expiries was asked about a target that is not in a group of two
\* subscriptions, one of them failed, with a new value above the group's
\* largest expiry.
C33_Witness ==
    /\ answer.op = "max_expiries"
    /\ Cardinality(DOMAIN subscriptions) = 2
    /\ answer.id \notin DOMAIN subscriptions
    /\ \E x \in DOMAIN subscriptions : subscriptions[x].failed
    /\ answer.ret[1] # NoEpoch
    /\ answer.new_value # NoEpoch
    /\ answer.ret[2] = answer.new_value
    /\ answer.ret[2][1] > answer.ret[1][1]

\* C34: is_min_added fails when trim_id is not in the group; otherwise it
\* returns (false, none) exactly when another non-failed subscription was
\* added strictly before trim, and else (true, m) with m the smallest added
\* epoch of the other non-failed subscriptions, none when there are none;
\* in every iteration order of the group.
C34_IsMinAdded ==
    \A trim_id \in SubscriptionId, order \in IterOrders(subscriptions) :
        LET g == subscriptions
            r == is_min_added(g, order, trim_id)
            others == {g[x].added : x \in {y \in DOMAIN g \ {trim_id} : ~g[y].failed}}
        IN  IF trim_id \notin DOMAIN g
            THEN ~r.ok
            ELSE /\ r.ok
                 /\ r.ret = IF \E e \in others : e < g[trim_id].added
                            THEN <<FALSE, NoEpoch>>
                            ELSE <<TRUE, MinOf(others)>>

\* is_min_added found the trimmed subscription to be the earliest of a
\* group of three in which a failed subscription was added before it.
C34_Witness ==
    /\ answer.op = "is_min_added"
    /\ answer.ok
    /\ Cardinality(DOMAIN subscriptions) = 3
    /\ answer.ret[1]
    /\ answer.ret[2] # NoEpoch
    /\ \E x \in DOMAIN subscriptions :
        /\ subscriptions[x].failed
        /\ subscriptions[x].added < subscriptions[answer.id].added

\* C32: no approval's used counter exceeds its limit, and a delegated
\* add_blob whose cost would bring used above the limit fails and leaves
\* the approvals and the State, the sponsor's credit with it, unchanged.
C32_ApprovalLimit ==
    /\ \A key \in DOMAIN approvals :
           approvals[key].limit # NoEpoch => approvals[key].used <= approvals[key].limit[1]
    /\ \A origin \in Address, caller \in Callers, sponsor \in DOMAIN accounts,
          hash \in FreshOrKnown(Hash, DOMAIN blobs), size \in Sizes, ttl \in TTLs, source \in PublicKey :
        LET key == ApprovalKey(approvals, sponsor, origin, caller)
            paid == add_blob(St, sponsor, now, hash, size, ttl, source)
            cost == accounts[sponsor].credit_free - paid.st.accounts[sponsor].credit_free
            r == sponsored_add_blob(St, approvals, origin, caller, sponsor, now, hash, size, ttl, source)
        IN  (/\ key # <<>>
             /\ approvals[key].limit # NoEpoch
             /\ paid.ok
             /\ approvals[key].used + cost > approvals[key].limit[1]) =>
                /\ ~r.ok
                /\ r.ap = approvals
                /\ r.st = St

\* A delegated add_blob has been refused after an accepted one had used a
\* part of the limit, with enough free credit left on the sponsor to pay it.
C32_Witness ==
    /\ last = Call("sponsored_add_blob", FALSE)
    /\ \E key \in DOMAIN approvals :
        /\ approvals[key].limit # NoEpoch
        /\ approvals[key].used > 0
        /\ ApprovalValid(approvals[key], now)
        /\ accounts[key[1]].credit_committed = approvals[key].used
        /\ accounts[key[1]].credit_free >= MIN_TTL
        /\ approvals[key].used + MIN_TTL > approvals[key].limit[1]

\* The credit the accounts hold, free or committed.
SumAccountCredit ==
    SumOver([a \in DOMAIN accounts |->
                accounts[a].credit_free + accounts[a].credit_committed],
            DOMAIN accounts)

\* C35: credit is conserved: credit_sold is the sum over the accounts of
\* credit_free + credit_committed plus the global credit_debited, and only
\* buy_credit changes credit_sold.
C35_CreditConserved ==
    /\ credit_sold = SumAccountCredit + credit_debited
    /\ credit_sold = minted

\* Credit has been bought by two accounts, committed, debited and refunded
\* by a finalize_blob with status Failed.
C35_Witness ==
    /\ last = Call("finalize_blob", TRUE)
    /\ branch = "failed"
    /\ Cardinality(DOMAIN accounts) = 2
    /\ credit_committed > 0
    /\ now > 0
    /\ \E a \in DOMAIN accounts :
        /\ accounts[a].last_debit_epoch = now
        /\ accounts[a].capacity_used = 0
        /\ accounts[a].credit_free = CreditDebitRate * 6

\* C36: every account's credit_committed, the global credit_committed and
\* the global credit_debited are never negative.
C36_CommittedAndDebitedNonNegative ==
    /\ credit_committed >= 0
    /\ credit_debited >= 0
    /\ \A a \in DOMAIN accounts : accounts[a].credit_committed >= 0

\* The step was not an add_blob and did not lower the credit_free of any
\* account.
OnlyAddBlobSpends ==
    last'.op # "add_blob" =>
        \A a \in DOMAIN accounts : accounts'[a].credit_free >= accounts[a].credit_free

\* C37: every account's credit_free is never negative: no add_blob that
\* requires more credit than the sender has free is accepted, and no other
\* operation lowers a credit_free.
C37_CreditFreeNonNegative ==
    /\ [](\A a \in DOMAIN accounts : accounts[a].credit_free >= 0)
    /\ [][OnlyAddBlobSpends]_vars

\* add_blob has been refused for want of credit: the sender has less free
\* credit than the smallest subscription costs.
C37_Witness ==
    /\ last = Call("add_blob", FALSE)
    /\ DOMAIN blobs # {}
    /\ \E a \in DOMAIN accounts :
        /\ accounts[a].credit_free < MIN_TTL
        /\ accounts[a].credit_free >= 0
        /\ accounts[a].credit_committed > 0

\* C38: the global capacity_used is never negative and never above the
\* capacity fixed at construction, which stays as constructed.
C38_CapacityWithinBounds ==
    /\ capacity_free = Capacity
    /\ capacity_used >= 0
    /\ capacity_used <= capacity_free

\* C39: debit_accounts never returns an error: every entry of the expiry
\* index at or before the epoch names an existing account, blob and
\* subscription, in whatever order the entries are visited.
C39_DebitAccountsNeverFails ==
    /\ \A e \in DOMAIN expiries : \A a \in DOMAIN expiries[e] :
        /\ a \in DOMAIN accounts
        /\ expiries[e][a] \in DOMAIN blobs
        /\ a \in DOMAIN blobs[expiries[e][a]].subs
    /\ \A entry_order \in EntryOrders(ExpiredEntries(expiries, now)),
          account_order \in AccountOrders(accounts) :
        debit_accounts(St, now, entry_order, account_order).ok

\* debit_accounts has run after the expiry as the last call of a behaviour
\* and reaped every subscription of the two accounts.
C39_Witness ==
    /\ last = Call("debit_accounts", TRUE)
    /\ calls = MaxCalls
    /\ DOMAIN blobs = {}
    /\ DOMAIN expiries = {}
    /\ Cardinality(DOMAIN accounts) = 2
    /\ \A a \in DOMAIN accounts : accounts[a].last_debit_epoch = MIN_TTL + 1
    /\ credit_debited >= 2 * MIN_TTL

\* C40: an account that holds no subscription on any blob has
\* credit_committed = 0.
C40_NoCreditLockedWithoutSubscription ==
    \A a \in DOMAIN accounts :
        (\A h \in DOMAIN blobs : a \notin DOMAIN blobs[h].subs) =>
            accounts[a].credit_committed = 0

====
